---- MODULE Spec2Model ----
(***************************************************************************)
(* A model of hash_difficulty.py: a proof-of-work style scan.  The script  *)
(* parses a hexadecimal target, hashes prefix + str(nonce) with SHA-256    *)
(* for every nonce of range(count), collects the (nonce, hexdigest) pairs  *)
(* whose integer value is below the target, and prints a report.           *)
(*                                                                         *)
(* The three literals of the script (prefix, target_hex and the trial      *)
(* count of range()) are the inputs of the model.  Two runs of the script  *)
(* are modelled side by side as independent processes: they share prefix   *)
(* and count, and each has its own target_hex, so that statements which    *)
(* relate two runs (determinism, monotonicity in the target) can be        *)
(* stated over the final states of both.                                   *)
(*                                                                         *)
(* Python values are modelled by what the interpreter computes:            *)
(*   str    a TLA+ string,                                                 *)
(*   bytes  a sequence of numbers in 0..255,                               *)
(*   int    where it can exceed a machine word, a record [type, neg, mag]: *)
(*          a sign and the magnitude as 16-bit limbs, least significant    *)
(*          first, without leading zero limbs,                             *)
(*   a 32-bit word of SHA-256: a pair <<hi, lo>> of 16-bit halves.         *)
(***************************************************************************)
EXTENDS Integers, Sequences, FiniteSets, TLC

(***************************************************************************)
(* Inputs                                                                  *)
(***************************************************************************)

\* range(64): the trial count of the script
DefaultCount == 64

\* the target of the script: 2^252 - 1
CodeTargetHex == "0fffffffffffffffffffffffffffffffffffffffffffffffffffffffffffffff"

\* sha256(b"jesse2").hexdigest(): a target that one digest equals exactly
EqualTargetHex == "07a17c6abc11dc0ae9e0695b0d6d3f0aecc1899ce18786c1f10d612ff65d40c5"

\* 2^254 - 1 written with a base prefix, capitals and digit separators
WideTargetHex == "0x3FFFFFFFFFFFFFFF_FFFFFFFFFFFFFFFF_FFFFFFFFFFFFFFFF_FFFFFFFFFFFFFFFF"

\* not a hexadecimal literal
BadTargetHex == "0fffffffffffffffffffffffffffffffffffffffffffffffffffffffffffffffg"

Prefixes == {"jesse", ""}
TargetHexes == {CodeTargetHex, EqualTargetHex, WideTargetHex, BadTargetHex}
Counts == {-1, 0, DefaultCount}
Runs == {1, 2}

\* Python values that are not modelled by a TLA+ value of their own
None == [type |-> "NoneType"]
ValueError == [type |-> "ValueError"]

(***************************************************************************)
(* str                                                                     *)
(***************************************************************************)

Char(s, i) == SubSeq(s, i, i)

DecDigits == "0123456789"

\* str(n) of a non-negative int
RECURSIVE StrNat(_)
StrNat(n) ==
    IF n < 10 THEN Char(DecDigits, n + 1)
    ELSE StrNat(n \div 10) \o Char(DecDigits, (n % 10) + 1)

\* str(n), the conversion of f"{n}"
Str(n) == IF n < 0 THEN "-" \o StrNat(-n) ELSE StrNat(n)

\* f"{n:2d}": decimal, right-aligned in a field of width 2
Format2d(n) ==
    LET s == Str(n)
    IN  IF Len(s) >= 2 THEN s ELSE " " \o s

\* the printable ASCII characters from code point 32 and from code point 97
AsciiFrom32 ==
    " !\"#$%&'()*+,-./0123456789:;<=>?@ABCDEFGHIJKLMNOPQRSTUVWXYZ[\\]^_"
AsciiFrom97 == "abcdefghijklmnopqrstuvwxyz{|}~"

Characters ==
    {Char(AsciiFrom32, i) : i \in 1..Len(AsciiFrom32)} \cup
    {Char(AsciiFrom97, i) : i \in 1..Len(AsciiFrom97)}

\* ord(c)
Ord ==
    [c \in Characters |->
        IF \E i \in 1..Len(AsciiFrom32) : Char(AsciiFrom32, i) = c
        THEN 31 + (CHOOSE i \in 1..Len(AsciiFrom32) : Char(AsciiFrom32, i) = c)
        ELSE 96 + (CHOOSE i \in 1..Len(AsciiFrom97) : Char(AsciiFrom97, i) = c)]

\* the UTF-8 encoding of one code point
Utf8(cp) ==
    IF cp < 128 THEN <<cp>>
    ELSE IF cp < 2048 THEN <<192 + (cp \div 64), 128 + (cp % 64)>>
    ELSE IF cp < 65536
         THEN <<224 + (cp \div 4096), 128 + ((cp \div 64) % 64), 128 + (cp % 64)>>
    ELSE <<240 + (cp \div 262144), 128 + ((cp \div 4096) % 64),
           128 + ((cp \div 64) % 64), 128 + (cp % 64)>>

\* s.encode("utf-8")
RECURSIVE Encode(_)
Encode(s) ==
    IF Len(s) = 0 THEN <<>>
    ELSE Utf8(Ord[Char(s, 1)]) \o Encode(SubSeq(s, 2, Len(s)))

\* msg = f"{prefix}{nonce}".encode("utf-8")
Message(p, n) == Encode(p \o Str(n))

(***************************************************************************)
(* hashlib.sha256: FIPS 180-4 on 32-bit words kept as 16-bit halves        *)
(***************************************************************************)

RECURSIVE XorBits(_, _, _)
XorBits(a, b, n) ==
    IF n = 0 THEN 0
    ELSE ((a + b) % 2) + 2 * XorBits(a \div 2, b \div 2, n - 1)

RECURSIVE AndBits(_, _, _)
AndBits(a, b, n) ==
    IF n = 0 THEN 0
    ELSE ((a % 2) * (b % 2)) + 2 * AndBits(a \div 2, b \div 2, n - 1)

\* bitwise operations on bytes, tabulated
XorByte == [a \in 0..255 |-> [b \in 0..255 |-> XorBits(a, b, 8)]]
AndByte == [a \in 0..255 |-> [b \in 0..255 |-> AndBits(a, b, 8)]]

Xor16(a, b) == XorByte[a \div 256][b \div 256] * 256 + XorByte[a % 256][b % 256]
And16(a, b) == AndByte[a \div 256][b \div 256] * 256 + AndByte[a % 256][b % 256]

Xor(a, b) == <<Xor16(a[1], b[1]), Xor16(a[2], b[2])>>
And(a, b) == <<And16(a[1], b[1]), And16(a[2], b[2])>>
Not(a) == <<65535 - a[1], 65535 - a[2]>>

\* addition modulo 2^32
Add(a, b) ==
    LET lo == a[2] + b[2]
        hi == a[1] + b[1] + (lo \div 65536)
    IN  <<hi % 65536, lo % 65536>>

Pow2 == [i \in 0..16 |-> 2^i]

RotrSmall(a, n) ==
    IF n = 0 THEN a
    ELSE <<(a[1] \div Pow2[n]) + (a[2] % Pow2[n]) * Pow2[16 - n],
           (a[2] \div Pow2[n]) + (a[1] % Pow2[n]) * Pow2[16 - n]>>

\* rotate right by n bits, 0 <= n < 32
Rotr(a, n) ==
    IF n < 16 THEN RotrSmall(a, n) ELSE RotrSmall(<<a[2], a[1]>>, n - 16)

\* shift right by n bits, 0 <= n < 32
Shr(a, n) ==
    IF n < 16
    THEN <<a[1] \div Pow2[n], (a[2] \div Pow2[n]) + (a[1] % Pow2[n]) * Pow2[16 - n]>>
    ELSE <<0, a[1] \div Pow2[n - 16]>>

\* the initial hash value
SHA256_H0 ==
    <<
    <<27145, 58983>>, <<47975, 44677>>, <<15470, 62322>>, <<42319, 62778>>,
    <<20750, 21119>>, <<39685, 26764>>, <<8067, 55723>>, <<23520, 52505>>
    >>

\* the round constants
SHA256_K ==
    <<
    <<17034, 12184>>, <<28983, 17553>>, <<46528, 64463>>, <<59829, 56229>>,
    <<14678, 49755>>, <<23025, 4593>>, <<37439, 33444>>, <<43804, 24277>>,
    <<55303, 43672>>, <<4739, 23297>>, <<9265, 34238>>, <<21772, 32195>>,
    <<29374, 23924>>, <<32990, 45566>>, <<39900, 1703>>, <<49563, 61812>>,
    <<58523, 27073>>, <<61374, 18310>>, <<4033, 40390>>, <<9228, 41420>>,
    <<11753, 11375>>, <<19060, 33962>>, <<23728, 43484>>, <<30457, 35034>>,
    <<38974, 20818>>, <<43057, 50797>>, <<45059, 10184>>, <<48985, 32711>>,
    <<50912, 3059>>, <<54695, 37191>>, <<1738, 25425>>, <<5161, 10599>>,
    <<10167, 2693>>, <<11803, 8504>>, <<19756, 28156>>, <<21304, 3347>>,
    <<25866, 29524>>, <<30314, 2747>>, <<33218, 51502>>, <<37490, 11397>>,
    <<41663, 59553>>, <<43034, 26187>>, <<49739, 35696>>, <<51052, 20899>>,
    <<53650, 59417>>, <<54937, 1572>>, <<62478, 13701>>, <<4202, 41072>>,
    <<6564, 49430>>, <<7735, 27656>>, <<10056, 30540>>, <<13488, 48309>>,
    <<14620, 3251>>, <<20184, 43594>>, <<23452, 51791>>, <<26670, 28659>>,
    <<29839, 33518>>, <<30885, 25455>>, <<33992, 30740>>, <<36039, 520>>,
    <<37054, 65530>>, <<42064, 27883>>, <<48889, 41975>>, <<50801, 30962>>
    >>

BigSigma0(a) == Xor(Xor(Rotr(a, 2), Rotr(a, 13)), Rotr(a, 22))
BigSigma1(e) == Xor(Xor(Rotr(e, 6), Rotr(e, 11)), Rotr(e, 25))
SmallSigma0(w) == Xor(Xor(Rotr(w, 7), Rotr(w, 18)), Shr(w, 3))
SmallSigma1(w) == Xor(Xor(Rotr(w, 17), Rotr(w, 19)), Shr(w, 10))
Ch(e, f, g) == Xor(And(e, f), And(Not(e), g))
Maj(a, b, c) == Xor(Xor(And(a, b), And(a, c)), And(b, c))

Zeros(n) == [i \in 1..n |-> 0]

\* the message, a 1 bit, zero bits and the bit length in 64 bits
Pad(msg) ==
    LET L == Len(msg)
        bits == 8 * L
    IN  msg \o <<128>> \o Zeros((55 - L) % 64) \o
        <<0, 0, 0, 0, (bits \div 16777216) % 256, (bits \div 65536) % 256,
          (bits \div 256) % 256, bits % 256>>

\* the 16 big-endian words of block b of the padded message p
BlockWords(p, b) ==
    [i \in 1..16 |->
        LET o == 64 * (b - 1) + 4 * (i - 1)
        IN  <<p[o + 1] * 256 + p[o + 2], p[o + 3] * 256 + p[o + 4]>>]

\* the message schedule W[1..64]
RECURSIVE Schedule(_)
Schedule(w) ==
    IF Len(w) = 64 THEN w
    ELSE LET t == Len(w) + 1
         IN  Schedule(Append(w, Add(Add(SmallSigma1(w[t - 2]), w[t - 7]),
                                    Add(SmallSigma0(w[t - 15]), w[t - 16]))))

\* the 64 rounds; ts is <<t, working variables a..h>>
RECURSIVE Rounds(_, _)
Rounds(ts, w) ==
    IF ts[1] > 64 THEN ts[2]
    ELSE LET t == ts[1]
             s == ts[2]
             t1 == Add(Add(Add(s[8], BigSigma1(s[5])),
                           Add(Ch(s[5], s[6], s[7]), SHA256_K[t])), w[t])
             t2 == Add(BigSigma0(s[1]), Maj(s[1], s[2], s[3]))
         IN  Rounds(<<t + 1, <<Add(t1, t2), s[1], s[2], s[3],
                               Add(s[4], t1), s[5], s[6], s[7]>>>>, w)

\* one block: the rounds, then the working variables are added to the hash value
Compress(h, block) ==
    LET s == Rounds(<<1, h>>, Schedule(block))
    IN  <<Add(h[1], s[1]), Add(h[2], s[2]), Add(h[3], s[3]), Add(h[4], s[4]),
          Add(h[5], s[5]), Add(h[6], s[6]), Add(h[7], s[7]), Add(h[8], s[8])>>

\* the blocks of the padded message p in turn; bh is <<b, hash value so far>>
RECURSIVE Blocks(_, _)
Blocks(bh, p) ==
    IF 64 * (bh[1] - 1) >= Len(p) THEN bh[2]
    ELSE Blocks(<<bh[1] + 1, Compress(bh[2], BlockWords(p, bh[1]))>>, p)

\* hashlib.sha256(msg): the digest as eight 32-bit words
Sha256(msg) == Blocks(<<1, SHA256_H0>>, Pad(msg))

HexLower == "0123456789abcdef"
HexUpper == "0123456789ABCDEF"

\* Hex4 with the two digits of each byte exchanged
Hex4Swapped(x) ==
    Char(HexLower, ((x \div 256) % 16) + 1) \o Char(HexLower, (x \div 4096) + 1) \o
    Char(HexLower, (x % 16) + 1) \o Char(HexLower, ((x \div 16) % 16) + 1)

\* four lowercase hexadecimal digits of a 16-bit value
Hex4(x) ==
    Char(HexLower, (x \div 4096) + 1) \o Char(HexLower, ((x \div 256) % 16) + 1) \o
    Char(HexLower, ((x \div 16) % 16) + 1) \o Char(HexLower, (x % 16) + 1)

\* .hexdigest(): two lowercase hexadecimal digits per byte of the digest
RECURSIVE Hexdigest(_)
Hexdigest(words) ==
    IF Len(words) = 0 THEN ""
    ELSE Hex4(words[1][1]) \o Hex4(words[1][2]) \o Hexdigest(Tail(words))

(***************************************************************************)
(* int(s, 16) and the comparison of ints                                   *)
(***************************************************************************)

\* the value of a hexadecimal digit, -1 for any other character
HexValue ==
    [c \in Characters |->
        IF \E i \in 1..16 : Char(HexLower, i) = c
        THEN (CHOOSE i \in 1..16 : Char(HexLower, i) = c) - 1
        ELSE IF \E i \in 1..16 : Char(HexUpper, i) = c
        THEN (CHOOSE i \in 1..16 : Char(HexUpper, i) = c) - 1
        ELSE -1]

\* leading and trailing whitespace is skipped
RECURSIVE LStrip(_)
LStrip(s) ==
    IF Len(s) > 0 /\ Char(s, 1) = " " THEN LStrip(SubSeq(s, 2, Len(s))) ELSE s

RECURSIVE RStrip(_)
RStrip(s) ==
    IF Len(s) > 0 /\ Char(s, Len(s)) = " " THEN RStrip(SubSeq(s, 1, Len(s) - 1)) ELSE s

HasSign(s) == Len(s) > 0 /\ Char(s, 1) \in {"+", "-"}

\* what follows the optional sign
Unsigned(s) == IF HasSign(s) THEN SubSeq(s, 2, Len(s)) ELSE s

HasBasePrefix(s) == Len(s) >= 2 /\ SubSeq(s, 1, 2) \in {"0x", "0X"}

\* what follows the optional 0x; one underscore is allowed right after it
AfterBasePrefix(s) ==
    IF HasBasePrefix(s)
    THEN IF Len(s) >= 3 /\ Char(s, 3) = "_"
         THEN SubSeq(s, 4, Len(s))
         ELSE SubSeq(s, 3, Len(s))
    ELSE s

\* hexadecimal digits, single underscores only between digits, one digit at least
WellFormedDigits(d) ==
    /\ Len(d) > 0
    /\ \A i \in 1..Len(d) : Char(d, i) = "_" \/ HexValue[Char(d, i)] >= 0
    /\ Char(d, 1) # "_"
    /\ Char(d, Len(d)) # "_"
    /\ \A i \in 1..(Len(d) - 1) : ~(Char(d, i) = "_" /\ Char(d, i + 1) = "_")

\* the digit values, most significant first, underscores dropped
DigitValues(d) ==
    SelectSeq([i \in 1..Len(d) |-> HexValue[Char(d, i)]], LAMBDA v : v >= 0)

\* four hexadecimal digits per 16-bit limb, filled from the least significant end
Limbs(ds) ==
    LET L == Len(ds)
        At(i) == IF i >= 1 THEN ds[i] ELSE 0
    IN  [j \in 1..((L + 3) \div 4) |->
            LET e == L - 4 * (j - 1)
            IN  At(e) + 16 * At(e - 1) + 256 * At(e - 2) + 4096 * At(e - 3)]

\* drop the most significant limbs that are zero
RECURSIVE Normalize(_)
Normalize(mag) ==
    IF Len(mag) > 0 /\ mag[Len(mag)] = 0
    THEN Normalize(SubSeq(mag, 1, Len(mag) - 1))
    ELSE mag

\* int(s, 16): the int, or ValueError
IntBase16(s) ==
    LET t == RStrip(LStrip(s))
        d == AfterBasePrefix(Unsigned(t))
    IN  IF ~WellFormedDigits(d) THEN ValueError
        ELSE LET mag == Normalize(Limbs(DigitValues(d)))
             IN  [type |-> "int",
                  neg |-> HasSign(t) /\ Char(t, 1) = "-" /\ Len(mag) > 0,
                  mag |-> mag]

\* compare the magnitudes x and y of equal length from limb i down
RECURSIVE MagLessFrom(_, _, _)
MagLessFrom(x, y, i) ==
    IF i = 0 THEN FALSE
    ELSE IF x[i] # y[i] THEN x[i] < y[i]
    ELSE MagLessFrom(x, y, i - 1)

MagLess(x, y) ==
    IF Len(x) # Len(y) THEN Len(x) < Len(y) ELSE MagLessFrom(x, y, Len(x))

\* a < b on ints
Less(a, b) ==
    IF a.neg # b.neg THEN a.neg
    ELSE IF a.neg THEN MagLess(b.mag, a.mag)
    ELSE MagLess(a.mag, b.mag)

(***************************************************************************)
(* The values the runs of the model compute, tabulated once                *)
(***************************************************************************)

\* the largest trial count of the model
MaxCount == CHOOSE c \in Counts : \A d \in Counts : d <= c

\* the messages of the nonces up to the largest trial count
Messages == {Message(p, n) : p \in Prefixes, n \in 0..MaxCount}

\* hashlib.sha256(msg) of every message
DigestWords == [m \in Messages |-> Sha256(m)]

\* hashlib.sha256(msg).hexdigest() of every message
DigestHex == [m \in Messages |-> Hexdigest(DigestWords[m])]

\* every str a run passes to int(., 16)
HexStrings == TargetHexes \cup {DigestHex[m] : m \in Messages}

\* int(s, 16) of every such str
IntOf == [s \in HexStrings |-> IntBase16(s)]

(***************************************************************************)
(* The script, one process per run                                         *)
(***************************************************************************)

VARIABLES
    prefix,      \* prefix (line 6)
    count,       \* the argument of range() (line 9)
    target_hex,  \* target_hex of each run (line 3)
    target,      \* target of each run (line 4), None before it is assigned
    hits,        \* hits of each run (lines 7, 13)
    nonce,       \* the next value of the range iterator of line 9
    shown,       \* the number of hits the loop of line 17 has printed
    out,         \* the lines written to standard output
    pc,          \* the line each run is at; "done": exit status 0,
                 \* "error": ended by an uncaught ValueError, exit status 1
    tried,       \* history: the nonces whose digest was computed, in order
    digests,     \* history: the hexdigest computed for each of them
    compared     \* history: for each hit, the int that was compared to target

vars ==
    <<prefix, count, target_hex, target, hits, nonce, shown, out, pc,
      tried, digests, compared>>

\* lines 3, 6 and 7 bind target_hex, prefix and hits to values that nothing
\* reads before line 4 has run: they hold them from the start
Init ==
    /\ prefix \in Prefixes
    /\ count \in Counts
    /\ target_hex \in [Runs -> TargetHexes]
    /\ target = [r \in Runs |-> None]
    /\ hits = [r \in Runs |-> <<>>]
    /\ nonce = [r \in Runs |-> 0]
    /\ shown = [r \in Runs |-> 0]
    /\ out = [r \in Runs |-> <<>>]
    /\ pc = [r \in Runs |-> "line4"]
    /\ tried = [r \in Runs |-> <<>>]
    /\ digests = [r \in Runs |-> <<>>]
    /\ compared = [r \in Runs |-> <<>>]

\* line 4: target = int(target_hex, 16); a ValueError ends the run
ParseTarget(r) ==
    /\ pc[r] = "line4"
    /\ IF IntOf[target_hex[r]] = ValueError
       THEN /\ pc' = [pc EXCEPT ![r] = "error"]
            /\ UNCHANGED target
       ELSE /\ target' = [target EXCEPT ![r] = IntOf[target_hex[r]]]
            /\ pc' = [pc EXCEPT ![r] = "line9"]
    /\ UNCHANGED <<prefix, count, target_hex, hits, nonce, shown, out,
                   tried, digests, compared>>

\* InRange with the end of the range included
InRangeInclusive(i, c) == i <= c

\* line 9: range(c) yields i
InRange(i, c) == i < c

\* IsHit with <= for <
IsHitNonStrict(v, t) == ~Less(t, v)

\* IsHit with the operands exchanged
IsHitReversed(v, t) == Less(t, v)

\* line 12: int(h, 16) < target
IsHit(v, t) == Less(v, t)

\* AppendHit as hits.insert(0, (nonce, h))
PrependHit(hs, n, h) == <<<<n, h>>>> \o hs

\* AppendHit as hits = [(nonce, h)]
OverwriteHit(hs, n, h) == <<<<n, h>>>>

\* line 13: hits.append((nonce, h))
AppendHit(hs, n, h) == Append(hs, <<n, h>>)

\* Step with a break after the append of line 13
StepBreak(r) ==
    /\ pc[r] = "line9"
    /\ InRange(nonce[r], count)
    /\ LET n == nonce[r]
           msg == Message(prefix, n)
           h == DigestHex[msg]
           v == IntOf[h]
       IN  /\ IF IsHit(v, target[r])
              THEN /\ hits' = [hits EXCEPT ![r] = AppendHit(@, n, h)]
                   /\ compared' = [compared EXCEPT ![r] = Append(@, v)]
                   /\ pc' = [pc EXCEPT ![r] = "line15"]
              ELSE UNCHANGED <<hits, compared, pc>>
           /\ tried' = [tried EXCEPT ![r] = Append(@, n)]
           /\ digests' = [digests EXCEPT ![r] = Append(@, h)]
    /\ nonce' = [nonce EXCEPT ![r] = @ + 1]
    /\ UNCHANGED <<prefix, count, target_hex, target, shown, out>>

\* Step with the nonce drawn at random from range(count)
StepRandom(r) ==
    /\ pc[r] = "line9"
    /\ InRange(nonce[r], count)
    /\ \E n \in 0..(count - 1) :
           LET msg == Message(prefix, n)
               h == DigestHex[msg]
               v == IntOf[h]
           IN  /\ IF IsHit(v, target[r])
                  THEN /\ hits' = [hits EXCEPT ![r] = AppendHit(@, n, h)]
                       /\ compared' = [compared EXCEPT ![r] = Append(@, v)]
                  ELSE UNCHANGED <<hits, compared>>
               /\ tried' = [tried EXCEPT ![r] = Append(@, n)]
               /\ digests' = [digests EXCEPT ![r] = Append(@, h)]
    /\ nonce' = [nonce EXCEPT ![r] = @ + 1]
    /\ UNCHANGED <<prefix, count, target_hex, target, shown, out, pc>>

\* lines 9-13: one iteration of the loop over range(count)
Step(r) ==
    /\ pc[r] = "line9"
    /\ InRange(nonce[r], count)
    /\ LET n == nonce[r]
           msg == Message(prefix, n)
           h == DigestHex[msg]
           v == IntOf[h]
       IN  /\ IF IsHit(v, target[r])
              THEN /\ hits' = [hits EXCEPT ![r] = AppendHit(@, n, h)]
                   /\ compared' = [compared EXCEPT ![r] = Append(@, v)]
              ELSE UNCHANGED <<hits, compared>>
           /\ tried' = [tried EXCEPT ![r] = Append(@, n)]
           /\ digests' = [digests EXCEPT ![r] = Append(@, h)]
    /\ nonce' = [nonce EXCEPT ![r] = @ + 1]
    /\ UNCHANGED <<prefix, count, target_hex, target, shown, out, pc>>

\* line 9: range(count) is exhausted
EndScan(r) ==
    /\ pc[r] = "line9"
    /\ ~InRange(nonce[r], count)
    /\ pc' = [pc EXCEPT ![r] = "line15"]
    /\ UNCHANGED <<prefix, count, target_hex, target, hits, nonce, shown, out,
                   tried, digests, compared>>

\* line 15: print(f"Trials: 64, Target: 0x{target_hex}")
PrintTrials(r) ==
    /\ pc[r] = "line15"
    /\ out' = [out EXCEPT ![r] =
                 Append(@, [line |-> "Trials", trials |-> "64",
                            target |-> "0x" \o target_hex[r]])]
    /\ pc' = [pc EXCEPT ![r] = "line16"]
    /\ UNCHANGED <<prefix, count, target_hex, target, hits, nonce, shown,
                   tried, digests, compared>>

\* line 16: print(f"Hits: {len(hits)} ...")
PrintHits(r) ==
    /\ pc[r] = "line16"
    /\ out' = [out EXCEPT ![r] =
                 Append(@, [line |-> "Hits", hits |-> Str(Len(hits[r]))])]
    /\ pc' = [pc EXCEPT ![r] = "line17"]
    /\ UNCHANGED <<prefix, count, target_hex, target, hits, nonce, shown,
                   tried, digests, compared>>

\* lines 17-18: print(f"  nonce={n:2d}  hash=0x{hx}") for the next hit
PrintHit(r) ==
    /\ pc[r] = "line17"
    /\ shown[r] < Len(hits[r])
    /\ LET hit == hits[r][shown[r] + 1]
       IN  out' = [out EXCEPT ![r] =
                     Append(@, [line |-> "hit", nonce |-> Format2d(hit[1]),
                                hash |-> "0x" \o hit[2]])]
    /\ shown' = [shown EXCEPT ![r] = @ + 1]
    /\ UNCHANGED <<prefix, count, target_hex, target, hits, nonce, pc,
                   tried, digests, compared>>

\* line 17: hits is exhausted, the script ends
Finish(r) ==
    /\ pc[r] = "line17"
    /\ shown[r] >= Len(hits[r])
    /\ pc' = [pc EXCEPT ![r] = "done"]
    /\ UNCHANGED <<prefix, count, target_hex, target, hits, nonce, shown, out,
                   tried, digests, compared>>

Run(r) ==
    \/ ParseTarget(r)
    \/ Step(r)
    \/ EndScan(r)
    \/ PrintTrials(r)
    \/ PrintHits(r)
    \/ PrintHit(r)
    \/ Finish(r)

Next == \E r \in Runs : Run(r)

Spec == Init /\ [][Next]_vars

\* one run alone: the target of the second run ends it at line 4
SoloInit == Init /\ target_hex[2] = BadTargetHex

\* a run is a process of its own, which keeps running until it has ended
FairSpec == SoloInit /\ [][Next]_vars /\ \A r \in Runs : WF_vars(Run(r))

(***************************************************************************)
(* Properties                                                              *)
(***************************************************************************)

Range(s) == {s[i] : i \in 1..Len(s)}

\* the nonces of a list of hits, in order
Nonces(hs) == [i \in 1..Len(hs) |-> hs[i][1]]

\* the run has left the loop of line 9
Scanned(r) == pc[r] \in {"line15", "line16", "line17", "done"}

\* the run has ended, with or without an error
Ended(r) == pc[r] \in {"done", "error"}

\* ints a and b, neither negative: a < b, stated on the limbs
Below(a, b) ==
    \/ Len(a.mag) < Len(b.mag)
    \/ /\ Len(a.mag) = Len(b.mag)
       /\ \E i \in 1..Len(a.mag) :
              /\ a.mag[i] < b.mag[i]
              /\ \A j \in (i + 1)..Len(a.mag) : a.mag[j] = b.mag[j]

\* the int a digest stands for: its 32 bytes read as a big-endian number
DigestValue ==
    [m \in Messages |->
        LET w == DigestWords[m]
        IN  [type |-> "int", neg |-> FALSE,
             mag |-> Normalize([j \in 1..16 |->
                        w[8 - ((j - 1) \div 2)][IF j % 2 = 1 THEN 2 ELSE 1]])]]

\* the targets that are ints
GoodTargetHexes == {t \in TargetHexes : IntBase16(t) # ValueError}

\* the nonces below MaxCount whose digest value is below the target
NoncesBelow ==
    [p \in Prefixes |-> [t \in GoodTargetHexes |->
        {n \in 0..(MaxCount - 1) : Below(DigestValue[Message(p, n)], IntBase16(t))}]]

\* the hits a finished scan of run r has to hold
ExpectedHits(r) ==
    {<<n, DigestHex[Message(prefix, n)]>> :
        n \in {m \in NoncesBelow[prefix][target_hex[r]] : m < count}}

\* C1: when the scan has finished, hits holds the pair (nonce, digest) exactly
\* for the nonces of [0, count) whose digest sha256(prefix + str(nonce)), read
\* as an integer, is strictly below target; a nonce whose digest value equals
\* target is not a hit, and no nonce below target is missing.
C1_HitsExact ==
    \A r \in Runs :
        Scanned(r) =>
            /\ Range(hits[r]) = ExpectedHits(r)
            /\ \A n \in 0..(count - 1) :
                   DigestValue[Message(prefix, n)] = target[r]
                       => n \notin Range(Nonces(hits[r]))

\* a finished scan of "jesse" whose target is the digest of nonce 2: the hits
\* are the three nonces below it and nonce 2 is none of them
C1_Witness ==
    \E r \in Runs :
        /\ pc[r] = "done"
        /\ prefix = "jesse"
        /\ count = DefaultCount
        /\ DigestValue[Message(prefix, 2)] = target[r]
        /\ Nonces(hits[r]) = <<0, 3, 47>>

\* C2: in every state, during and after the scan, the nonces of hits are in
\* strictly ascending order (so none appears twice) and lie in 0 .. count-1.
C2_Ascending ==
    \A r \in Runs :
        /\ \A i, j \in 1..Len(hits[r]) : i < j => hits[r][i][1] < hits[r][j][1]
        /\ \A i \in 1..Len(hits[r]) : hits[r][i][1] \in 0..(count - 1)

\* a scan that has recorded several hits and is still running
C2_Witness ==
    \E r \in Runs : pc[r] = "line9" /\ Len(hits[r]) >= 3 /\ nonce[r] < count

\* the nonces 0 .. count-1 in order
AllNonces == [i \in 1..(IF count > 0 THEN count ELSE 0) |-> i - 1]

\* C3: the scan always terminates, and a scan is over only when every nonce
\* of [0, count) has been tried exactly once, in order, nonce 0 and nonce 63
\* included: a hit does not end the loop, no nonce is skipped or tried twice.
C3_Terminates ==
    /\ <>(\A r \in Runs : Ended(r))
    /\ [](\A r \in Runs :
            /\ Scanned(r) => tried[r] = AllNonces
            /\ tried[r] = [i \in 1..nonce[r] |-> i - 1])

\* a run that ended after 64 trials, with hits on the way
C3_Witness ==
    \E r \in Runs :
        /\ pc[r] = "done"
        /\ count = DefaultCount
        /\ Len(hits[r]) > 0
        /\ tried[r][1] = 0
        /\ tried[r][DefaultCount] = DefaultCount - 1

\* C4: for a fixed prefix and count the hits grow with the target: of two
\* finished scans with targets t1 <= t2, every hit of the first is a hit of
\* the second, so it has no more hits.
C4_Monotone ==
    \A r1, r2 \in Runs :
        (Scanned(r1) /\ Scanned(r2) /\ ~Below(target[r2], target[r1])) =>
            /\ Range(hits[r1]) \subseteq Range(hits[r2])
            /\ Len(hits[r1]) <= Len(hits[r2])

\* two finished scans, the target of one below the target of the other, the
\* second with more hits
C4_Witness ==
    \E r1, r2 \in Runs :
        /\ pc[r1] = "done"
        /\ pc[r2] = "done"
        /\ Below(target[r1], target[r2])
        /\ 0 < Len(hits[r1])
        /\ Len(hits[r1]) < Len(hits[r2])

C6_ZeroCount ==
    \A r \in Runs :
        (count = 0 /\ IntOf[target_hex[r]] # ValueError) =>
            /\ tried[r] = <<>>
            /\ hits[r] = <<>>
            /\ pc[r] # "error"
            /\ pc[r] # "done" => ENABLED Run(r)
            /\ pc[r] = "done" =>
                   /\ Len(out[r]) = 2
                   /\ out[r][2] = [line |-> "Hits", hits |-> "0"]

\* a run with count = 0 that has ended
C6_Witness ==
    \E r \in Runs : count = 0 /\ pc[r] = "done" /\ out[r][2].hits = "0"

HitLine(hit) ==
    [line |-> "hit", nonce |-> Format2d(hit[1]), hash |-> "0x" \o hit[2]]

LowerHex64 ==
    [s \in HexStrings |->
        /\ Len(s) = 64
        /\ \A k \in 1..Len(s) : \E d \in 1..16 : Char(s, k) = Char(HexLower, d)]

\* C9: the digest stored in a hit is a string of 64 lowercase hexadecimal
\* digits; it parses, base 16, to the integer that was compared to target,
\* which is the value of the digest and lies in [0, 2^256); and it is the
\* string that was computed for that nonce.
C9_RoundTrip ==
    \A r \in Runs : \A i \in 1..Len(hits[r]) :
        LET n == hits[r][i][1]
            h == hits[r][i][2]
        IN  /\ LowerHex64[h]
            /\ IntOf[h] = compared[r][i]
            /\ compared[r][i] = DigestValue[Message(prefix, n)]
            /\ ~compared[r][i].neg
            /\ Len(compared[r][i].mag) <= 16
            /\ h = digests[r][n + 1]

\* a hit whose digest starts with two zero digits: its value has fewer limbs
C9_Witness ==
    \E r \in Runs : \E i \in 1..Len(hits[r]) :
        /\ SubSeq(hits[r][i][2], 1, 2) = "00"
        /\ Len(compared[r][i].mag) = 16
        /\ compared[r][i].mag[16] < 256

IsPrefixOf(s, t) == Len(s) <= Len(t) /\ SubSeq(t, 1, Len(s)) = s

\* C10: nothing is changed after it was created: no step changes prefix,
\* target_hex or an assigned target, the hits before a step are a prefix of
\* the hits after it, every hit's nonce is below the next nonce to try, and
\* there are no more hits than nonces tried.
C10_Frame ==
    /\ [](\A r \in Runs :
            /\ \A i \in 1..Len(hits[r]) : hits[r][i][1] < nonce[r]
            /\ Len(hits[r]) <= Len(tried[r]))
    /\ [][/\ prefix' = prefix
          /\ count' = count
          /\ target_hex' = target_hex
          /\ \A r \in Runs :
                /\ target[r] # None => target'[r] = target[r]
                /\ IsPrefixOf(hits[r], hits'[r])]_vars

\* a scan under way that has recorded hits and tried more nonces than that
C10_Witness ==
    \E r \in Runs :
        /\ pc[r] = "line9"
        /\ Len(hits[r]) >= 2
        /\ Len(tried[r]) > Len(hits[r])
        /\ target[r] # None

====
